---- MODULE Spec2Model ----
(***************************************************************************)
(* Model of the autotask_autogui node library: the five RPA action nodes   *)
(* of index.py run as links of a workflow chain (Spec), the branch         *)
(* selector of condition.py (CondSpec) and the class-creation hook         *)
(* RPANodeMeta.__new__ (MetaSpec).                                         *)
(*                                                                         *)
(* Python values are tagged tuples: <<"bool", b>>, <<"int", n>>,           *)
(* <<"float", n>>, <<"str", chars>>, <<"list", seq>>, <<"dict", record>>,  *)
(* <<"Point", x, y>>, <<"msg", prefix, detail>> (an f-string: a literal    *)
(* prefix followed by an interpolated value; literals are given in         *)
(* English), <<"exc", text>> (an exception whose str() is text),           *)
(* <<"obj", flags>>, <<"None">>.                                           *)
(* <<"absent">> marks a key a dict does not hold.  Text is a sequence of   *)
(* one-character strings.  Time is counted in ticks of 0.25 s, with the    *)
(* origin at the start_time of the running execute.                        *)
(***************************************************************************)
EXTENDS Integers, Sequences, FiniteSets, TLC

VARIABLES
    pc,           \* "idle" | "polling" (inside ImageClickNode's loop) | "returned"
    node,         \* the node kind whose execute ran last / is running
    step,         \* number of nodes of the chain started so far
    inputs,       \* node_inputs of the running execute
    result,       \* the dict the last execute returned
    now,          \* time.time() - start_time
    end_time,     \* ImageClickNode: end_time - start_time
    attempts,     \* ImageClickNode: attempts
    calls,        \* calls made to each automation primitive by this execute
    clipboard,    \* the system clipboard
    clip0,        \* history: the clipboard when this execute was entered
    locHist,      \* history: one entry per loop iteration of ImageClickNode
    polled,       \* history: this execute entered ImageClickNode's loop
    failedBefore, \* history: an earlier node of the chain returned success=False
    condValue,    \* ConditionNode: node_inputs
    condOut,      \* ConditionNode: the dict execute returned
    branch,       \* ConditionNode: what get_active_branch returned
    condPc,       \* ConditionNode: "idle" | "executed" | "routed"
    clsName,      \* RPANodeMeta.__new__: name
    clsBases,     \* RPANodeMeta.__new__: bases
    clsOwn,       \* RPANodeMeta.__new__: attrs as passed in
    clsAttrs,     \* RPANodeMeta.__new__: attrs handed to type.__new__
    clsPc         \* "declared" | "created"

chainVars == <<pc, node, step, inputs, result, now, end_time, attempts, calls,
               clipboard, clip0, locHist, polled, failedBefore>>
condVars == <<condValue, condOut, branch, condPc>>
metaVars == <<clsName, clsBases, clsOwn, clsAttrs, clsPc>>
vars == <<chainVars, condVars, metaVars>>

----------------------------------------------------------------------------
(* Bounds of the model *)

MaxChain == 3   \* nodes per chain
MaxWait == 5    \* largest wait_time of ImageClickNode, in ticks
MaxInt == 4     \* ConditionNode: integers -MaxInt..MaxInt
MaxBases == 2   \* RPANodeMeta: base classes per class statement

(* time.sleep(0.5) in ticks of 0.25 s *)
GapTicks == 2

----------------------------------------------------------------------------
(* Python values *)

Absent == <<"absent">>
PyNone == <<"None">>
PyTrue == <<"bool", TRUE>>
PyFalse == <<"bool", FALSE>>
PyInt(n) == <<"int", n>>
PyFloat(n) == <<"float", n>>
PyStr(s) == <<"str", s>>
PyList(l) == <<"list", l>>
PyDict(d) == <<"dict", d>>
PyObj(o) == <<"obj", o>>
Point(x, y) == <<"Point", x, y>>
Exc(text) == <<"exc", text>>
Msg(prefix, detail) == <<"msg", prefix, detail>>

(* len(str(v)) > 0 *)
strNonEmpty(v) ==
    CASE v[1] = "str" -> Len(v[2]) > 0
      [] v[1] = "exc" -> v[2] # ""
      [] OTHER -> TRUE

(* bool(v) when the truth protocol of v does not raise *)
bool(v) ==
    CASE v[1] = "bool" -> v[2]
      [] v[1] = "int" -> v[2] # 0
      [] v[1] = "float" -> v[2] # 0
      [] v[1] = "str" -> Len(v[2]) > 0
      [] v[1] = "list" -> Len(v[2]) > 0
      [] v[1] = "dict" -> \E k \in DOMAIN v[2] : v[2][k] # Absent
      [] v[1] = "Point" -> TRUE
      [] v[1] = "msg" -> v[2] # "" \/ strNonEmpty(v[3])
      [] v[1] = "obj" -> v[2].truth = "true"
      [] v[1] = "None" -> FALSE

(* d.get(key, default) on a dict *)
get(d, key, default) == IF d[2][key] = Absent THEN default ELSE d[2][key]

(* A dict with none of the keys the nodes use *)
EmptyDict ==
    [success |-> Absent, error_message |-> Absent, execution_time |-> Absent,
     click_position |-> Absent, image_found |-> Absent, text_info |-> Absent,
     key_info |-> Absent, process_info |-> Absent, condition_result |-> Absent]

----------------------------------------------------------------------------
(* Text helpers: str.lower, str.endswith, str.strip, str.split *)

lowerChar(c) ==
    CASE c = "A" -> "a" [] c = "B" -> "b" [] c = "C" -> "c" [] c = "G" -> "g"
      [] c = "J" -> "j" [] c = "L" -> "l" [] c = "N" -> "n" [] c = "P" -> "p"
      [] c = "T" -> "t" [] OTHER -> c

lower(s) == [i \in 1..Len(s) |-> lowerChar(s[i])]

endswith(s, suffix) ==
    /\ Len(suffix) <= Len(s)
    /\ SubSeq(s, Len(s) - Len(suffix) + 1, Len(s)) = suffix

RECURSIVE lstrip(_)
lstrip(s) == IF s # <<>> /\ Head(s) = " " THEN lstrip(Tail(s)) ELSE s

RECURSIVE rstrip(_)
rstrip(s) ==
    IF s # <<>> /\ s[Len(s)] = " " THEN rstrip(SubSeq(s, 1, Len(s) - 1)) ELSE s

strip(s) == rstrip(lstrip(s))

(* s.split(","): the pieces between commas, empty pieces kept *)
RECURSIVE split(_, _)
split(s, piece) ==
    IF s = <<>> THEN <<piece>>
    ELSE IF Head(s) = "," THEN <<piece>> \o split(Tail(s), <<>>)
    ELSE split(Tail(s), Append(piece, Head(s)))

----------------------------------------------------------------------------
(* The file system the nodes look at: os.path.exists *)

PngLower == <<"a", ".", "p", "n", "g">>
PngUpper == <<"b", ".", "P", "N", "G">>
JpegMixed == <<"c", ".", "J", "p", "e", "g">>
JpgFile == <<"d", ".", "j", "p", "g">>
BmpFile == <<"e", ".", "b", "m", "p">>
GifFile == <<"f", ".", "g", "i", "f">>
NoExtFile == <<"p", "n", "g">>
MissingPng == <<"m", ".", "p", "n", "g">>
MissingGif == <<"n", ".", "g", "i", "f">>
AppFile == <<"x", ".", "e", "x", "e">>
MissingApp == <<"y", ".", "e", "x", "e">>

Files == {PngLower, PngUpper, JpegMixed, JpgFile, BmpFile, GifFile, NoExtFile, AppFile}

exists(path) == path \in Files

----------------------------------------------------------------------------
(* Failure-chain guard shared by the five action nodes *)

SkipMessage == Msg("previous step failed, current node skipped", PyStr(<<>>))

(* Variant for testing C1: the "not" of the guard left out *)
notSuccess_missingNot(previous_result) ==
    bool(get(previous_result, "success", PyTrue))

(* not previous_result.get("success", True) *)
notSuccess(previous_result) == ~bool(get(previous_result, "success", PyTrue))

(* Variant for testing C2: success compared with False instead of truth-tested *)
Guard_isFalse(ni) ==
    LET previous_result ==
            IF ni.previous_result = Absent THEN PyDict(EmptyDict)
            ELSE ni.previous_result
    IN  IF ~bool(previous_result) THEN "pass"
        ELSE IF previous_result[1] # "dict" THEN "raise"
        ELSE IF get(previous_result, "success", PyTrue) = PyFalse THEN "skip"
        ELSE "pass"

(* The outcome of
     previous_result = node_inputs.get("previous_result", {})
     if previous_result and not previous_result.get("success", True):
   "raise": previous_result is truthy and has no .get (AttributeError). *)
Guard(ni) ==
    LET previous_result ==
            IF ni.previous_result = Absent THEN PyDict(EmptyDict)
            ELSE ni.previous_result
    IN  IF ~bool(previous_result) THEN "pass"
        ELSE IF previous_result[1] # "dict" THEN "raise"
        ELSE IF notSuccess(previous_result) THEN "skip"
        ELSE "pass"

SkipResult(t) ==
    [EmptyDict EXCEPT !.success = PyFalse, !.error_message = SkipMessage,
                      !.execution_time = PyFloat(t)]

(* Variant for testing C9: the message is str(e) alone *)
errorText_noPrefix(prefix, detail) == Msg("", detail)

(* error_msg = f"<what failed>: {str(e)}" *)
errorText(prefix, detail) == Msg(prefix, detail)

(* The dict built in a node's "except Exception as e" block *)
Failure(prefix, detail, payload, t) ==
    [EmptyDict EXCEPT !.success = PyFalse,
                      !.error_message = errorText(prefix, detail),
                      !.execution_time = PyFloat(t),
                      ![payload] = PyNone]

Success(payload, value, t) ==
    [EmptyDict EXCEPT !.success = PyTrue, !.error_message = PyStr(<<>>),
                      !.execution_time = PyFloat(t), ![payload] = value]

----------------------------------------------------------------------------
(* Inputs and environment of the chain *)

NoInputs ==
    [previous_result |-> Absent, x |-> Absent, y |-> Absent,
     target_img |-> Absent, wait_time |-> Absent, app_file |-> Absent,
     text |-> Absent, key |-> Absent, modifiers |-> Absent, presses |-> Absent]

NoCalls ==
    [click |-> 0, locate |-> 0, hotkey |-> 0, press |-> 0, paste |-> 0,
     copy |-> 0, startfile |-> 0, sleep |-> 0]

SuccessValues ==
    {PyTrue, PyFalse, PyNone, PyInt(0), PyInt(1), PyStr(<<>>), PyStr(<<"n", "o">>)}

(* previous_result of the first node of a chain *)
PrevValues ==
    {Absent, PyNone, PyStr(<<>>), PyStr(<<"x">>), PyDict(EmptyDict),
     PyDict([EmptyDict EXCEPT !.condition_result = PyTrue])}
    \cup {PyDict([EmptyDict EXCEPT !.success = s]) : s \in SuccessValues}

(* The host wires every later node to the result of the node before it *)
PrevChoices == IF step = 0 THEN PrevValues ELSE {PyDict(result)}

(* str(e) of an exception an automation primitive raises *)
ExcTexts == {"", "boom"}

OldClip == PyStr(<<"O", "L", "D">>)
ClipValues == {OldClip, PyStr(<<>>)}

Begin(kind, ni) ==
    /\ pc \in {"idle", "returned"}
    /\ step < MaxChain
    /\ node' = kind
    /\ inputs' = ni
    /\ step' = step + 1
    /\ clip0' = clipboard
    /\ failedBefore' = (failedBefore \/ (pc = "returned" /\ result.success = PyFalse))

Return(res, c, t, clip) ==
    /\ pc' = "returned"
    /\ result' = res
    /\ calls' = c
    /\ now' = t
    /\ clipboard' = clip
    /\ end_time' = 0
    /\ attempts' = 0
    /\ locHist' = <<>>
    /\ polled' = FALSE

----------------------------------------------------------------------------
(* MouseClickNode.execute.  clicks and interval are handed to              *)
(* pyautogui.click unchanged and are not part of the state.                *)

MouseClickInputs ==
    {[NoInputs EXCEPT !.previous_result = p, !.x = x, !.y = y] :
        p \in PrevChoices, x \in {Absent, PyInt(1)}, y \in {Absent, PyInt(2)}}

MouseClickFailure(detail, t) ==
    Failure("mouse click failed: ", detail, "click_position", t)

MouseClickNode_execute ==
    \E ni \in MouseClickInputs :
        /\ Begin("MouseClick", ni)
        /\ LET g == Guard(ni) IN
           IF g = "skip" THEN Return(SkipResult(0), NoCalls, 0, clipboard)
           ELSE IF g = "raise"
               THEN Return(MouseClickFailure(Exc("AttributeError"), 0), NoCalls, 0, clipboard)
           ELSE IF ni.x = Absent
               THEN Return(MouseClickFailure(Exc("'x'"), 0), NoCalls, 0, clipboard)
           ELSE IF ni.y = Absent
               THEN Return(MouseClickFailure(Exc("'y'"), 0), NoCalls, 0, clipboard)
           ELSE \/ \* pyautogui.click returns
                   Return(Success("click_position", PyDict([x |-> ni.x, y |-> ni.y]), 0),
                          [NoCalls EXCEPT !.click = 1], 0, clipboard)
                \/ \* pyautogui.click raises
                   \E e \in ExcTexts :
                       Return(MouseClickFailure(Exc(e), 0),
                              [NoCalls EXCEPT !.click = 1], 0, clipboard)
        /\ UNCHANGED <<condVars, metaVars>>

----------------------------------------------------------------------------
(* OpenApplicationNode.execute *)

(* wait_time = node_inputs.get("wait_time", 3), in ticks *)
DefaultSettleTicks == 12

OpenApplicationInputs ==
    {[NoInputs EXCEPT !.previous_result = p, !.app_file = a, !.wait_time = w] :
        p \in PrevChoices,
        a \in {Absent, PyStr(AppFile), PyStr(MissingApp)},
        w \in {Absent, PyInt(-1), PyInt(2)}}

OpenApplicationFailure(detail, t) ==
    Failure("failed to start application: ", detail, "process_info", t)

OpenApplicationNode_execute ==
    \E ni \in OpenApplicationInputs :
        /\ Begin("OpenApplication", ni)
        /\ LET g == Guard(ni)
               wait_time == IF ni.wait_time = Absent THEN DefaultSettleTicks
                            ELSE ni.wait_time[2]
               started == [NoCalls EXCEPT !.startfile = 1]
           IN
           IF g = "skip" THEN Return(SkipResult(0), NoCalls, 0, clipboard)
           ELSE IF g = "raise"
               THEN Return(OpenApplicationFailure(Exc("AttributeError"), 0), NoCalls, 0, clipboard)
           ELSE IF ni.app_file = Absent
               THEN Return(OpenApplicationFailure(Exc("'app_file'"), 0), NoCalls, 0, clipboard)
           ELSE IF ~exists(ni.app_file[2])
               THEN Return(OpenApplicationFailure(Exc("application path does not exist"), 0),
                           NoCalls, 0, clipboard)
           ELSE \/ \* os.startfile raises (always so where it does not exist)
                   \E e \in ExcTexts :
                       Return(OpenApplicationFailure(Exc(e), 0), started, 0, clipboard)
                \/ \* os.startfile returns
                   IF wait_time < 0
                   \* time.sleep raises ValueError on a negative length
                   THEN Return(OpenApplicationFailure(
                                   Exc("sleep length must be non-negative"), 0),
                               [started EXCEPT !.sleep = 1], 0, clipboard)
                   ELSE Return(Success("process_info",
                                       PyDict([application_path |-> ni.app_file,
                                               start_time |-> PyFloat(0)]),
                                       wait_time),
                               [started EXCEPT !.sleep = 1], wait_time, clipboard)
        /\ UNCHANGED <<condVars, metaVars>>

----------------------------------------------------------------------------
(* TypeTextNode.execute.  The paste is one pyautogui.hotkey call on every  *)
(* platform (command+v on Darwin, ctrl+v elsewhere).                       *)

NewText == <<"N", "E", "W">>

TypeTextInputs ==
    {[NoInputs EXCEPT !.previous_result = p, !.text = t] :
        p \in PrevChoices, t \in {Absent, PyStr(NewText), PyStr(<<>>)}}

TypeTextFailure(detail, t) ==
    Failure("text input failed: ", detail, "text_info", t)

TypeTextNode_execute ==
    \E ni \in TypeTextInputs :
        /\ Begin("TypeText", ni)
        /\ LET g == Guard(ni)
               original_clipboard == clipboard
               read == [NoCalls EXCEPT !.paste = 1]
           IN
           IF g = "skip" THEN Return(SkipResult(0), NoCalls, 0, clipboard)
           ELSE IF g = "raise"
               THEN Return(TypeTextFailure(Exc("AttributeError"), 0), NoCalls, 0, clipboard)
           ELSE \/ \* pyperclip.paste raises
                   \E e \in ExcTexts :
                       Return(TypeTextFailure(Exc(e), 0), read, 0, clipboard)
                \/ \* pyperclip.paste returns
                   IF ni.text = Absent
                   THEN Return(TypeTextFailure(Exc("'text'"), 0), read, 0, clipboard)
                   ELSE \/ \* the paste hotkey raises: the restoring copy is not reached
                           \E e \in ExcTexts :
                               Return(TypeTextFailure(Exc(e), 0),
                                      [read EXCEPT !.copy = 1, !.hotkey = 1], 0, ni.text)
                        \/ \* the paste hotkey returns
                           Return(Success("text_info",
                                          PyDict([content |-> ni.text,
                                                  length |-> PyInt(Len(ni.text[2]))]),
                                          0),
                                  [read EXCEPT !.copy = 2, !.hotkey = 1], 0,
                                  original_clipboard)
        /\ UNCHANGED <<condVars, metaVars>>

----------------------------------------------------------------------------
(* KeyPressNode.execute *)

(* interval = node_inputs.get("interval", 0.25), in ticks *)
IntervalTicks == 1

KeyPressInputs ==
    {[NoInputs EXCEPT !.previous_result = p, !.key = k, !.modifiers = m, !.presses = n] :
        p \in PrevChoices,
        k \in {Absent, PyStr(<<"a">>)},
        m \in {Absent, PyNone, PyStr(<<" ">>),
               PyStr(<<"C", "t", "r", "l", ",", " ", "a", "l", "t">>)},
        n \in {Absent, PyInt(2)}}

KeyPressFailure(detail, t) ==
    Failure("key press failed: ", detail, "key_info", t)

(* [m.strip().lower() for m in modifiers_str.split(",")] if modifiers_str else [] *)
parseModifiers(modifiers_str) ==
    IF modifiers_str = <<>> THEN <<>>
    ELSE LET pieces == split(modifiers_str, <<>>)
         IN  [i \in 1..Len(pieces) |-> PyStr(lower(strip(pieces[i])))]

KeyPressNode_execute ==
    \E ni \in KeyPressInputs :
        /\ Begin("KeyPress", ni)
        /\ LET g == Guard(ni)
               presses == IF ni.presses = Absent THEN 1 ELSE ni.presses[2]
           IN
           IF g = "skip" THEN Return(SkipResult(0), NoCalls, 0, clipboard)
           ELSE IF g = "raise"
               THEN Return(KeyPressFailure(Exc("AttributeError"), 0), NoCalls, 0, clipboard)
           ELSE IF ni.key = Absent
               THEN Return(KeyPressFailure(Exc("'key'"), 0), NoCalls, 0, clipboard)
           ELSE IF ni.modifiers = PyNone
               \* None has no .strip
               THEN Return(KeyPressFailure(Exc("AttributeError"), 0), NoCalls, 0, clipboard)
           ELSE
             LET modifiers_str == IF ni.modifiers = Absent THEN <<>>
                                  ELSE strip(ni.modifiers[2])
                 modifiers == parseModifiers(modifiers_str)
                 key_info == PyDict([key |-> ni.key, modifiers |-> PyList(modifiers),
                                     presses |-> PyInt(presses)])
             IN
             IF modifiers # <<>>
             THEN \* failAt = 0: every hotkey call returns; failAt = k: the k-th raises
                  \E failAt \in 0..presses :
                     LET made == IF failAt = 0 THEN presses ELSE failAt
                         slept == IF presses > 1
                                  THEN (IF failAt = 0 THEN presses ELSE failAt - 1)
                                  ELSE 0
                         c == [NoCalls EXCEPT !.hotkey = made, !.sleep = slept]
                         t == slept * IntervalTicks
                     IN  IF failAt = 0
                         THEN Return(Success("key_info", key_info, t), c, t, clipboard)
                         ELSE \E e \in ExcTexts :
                                 Return(KeyPressFailure(Exc(e), t), c, t, clipboard)
             ELSE \/ \* pyautogui.press returns
                     Return(Success("key_info", key_info, 0),
                            [NoCalls EXCEPT !.press = 1], 0, clipboard)
                  \/ \* pyautogui.press raises
                     \E e \in ExcTexts :
                         Return(KeyPressFailure(Exc(e), 0),
                                [NoCalls EXCEPT !.press = 1], 0, clipboard)
        /\ UNCHANGED <<condVars, metaVars>>

----------------------------------------------------------------------------
(* ImageClickNode.execute.  confidence is handed to locateCenterOnScreen   *)
(* unchanged; wait_time is supplied by the host (INPUTS default).          *)

valid_extensions ==
    << <<".", "p", "n", "g">>, <<".", "j", "p", "g">>,
       <<".", "j", "p", "e", "g">>, <<".", "b", "m", "p">> >>

(* image_path.lower().endswith(valid_extensions) *)
hasValidExtension(image_path) ==
    \E i \in 1..Len(valid_extensions) : endswith(lower(image_path), valid_extensions[i])

ImagePaths ==
    {PngLower, PngUpper, JpegMixed, JpgFile, BmpFile, GifFile, NoExtFile,
     MissingPng, MissingGif}

WaitTimes == -1..MaxWait

(* Every path with one wait_time, and one image with every wait_time *)
ImageClickInputs ==
    {[NoInputs EXCEPT !.previous_result = p, !.target_img = i,
                      !.wait_time = PyInt(GapTicks)] :
        p \in PrevChoices, i \in {Absent} \cup {PyStr(f) : f \in ImagePaths}}
    \cup
    {[NoInputs EXCEPT !.previous_result = p, !.target_img = PyStr(PngUpper),
                      !.wait_time = PyInt(w)] :
        p \in PrevChoices, w \in WaitTimes}

(* What pyautogui.locateCenterOnScreen can hand back *)
Locations == {Point(0, 0), Point(3, 4)}

(* How far one time.sleep(0.5) moves the clock *)
SleepAdvance == {GapTicks, GapTicks + 1}

ImageClickFailure(message, t) ==
    [EmptyDict EXCEPT !.success = PyFalse, !.error_message = message,
                      !.execution_time = PyFloat(t), !.image_found = PyFalse,
                      !.click_position = PyNone]

(* Variant for testing C3: the coordinates of click_position exchanged *)
ImageClickSuccess_swapped(location, t) ==
    [EmptyDict EXCEPT !.success = PyTrue, !.error_message = PyStr(<<>>),
                      !.execution_time = PyFloat(t), !.image_found = PyTrue,
                      !.click_position =
                          PyDict([x |-> PyInt(location[3]), y |-> PyInt(location[2])])]

ImageClickSuccess(location, t) ==
    [EmptyDict EXCEPT !.success = PyTrue, !.error_message = PyStr(<<>>),
                      !.execution_time = PyFloat(t), !.image_found = PyTrue,
                      !.click_position =
                          PyDict([x |-> PyInt(location[2]), y |-> PyInt(location[3])])]

(* Variant for testing C5: the extension looked at before the existence *)
imageCheck_extensionFirst(image_path) ==
    IF ~hasValidExtension(image_path) THEN "unsupported"
    ELSE IF ~exists(image_path) THEN "missing"
    ELSE "ok"

(* Lines 179-199: the file must exist, then have a known extension *)
imageCheck(image_path) ==
    IF ~exists(image_path) THEN "missing"
    ELSE IF ~hasValidExtension(image_path) THEN "unsupported"
    ELSE "ok"

(* Variant for testing C4: the attempt count off by one *)
timeoutMessage_offByOne(n) == Msg("target image not found (attempts: ", PyInt(n + 1))

(* Line 239: the message of the time-out result *)
timeoutMessage(n) == Msg("target image not found (attempts: ", PyInt(n))

(* Lines 160-206: guard, validation of the image file, set-up of the loop *)
ImageClickNode_execute ==
    \E ni \in ImageClickInputs :
        /\ Begin("ImageClick", ni)
        /\ LET g == Guard(ni) IN
           IF g = "skip" THEN Return(SkipResult(0), NoCalls, 0, clipboard)
           ELSE IF g = "raise"
               THEN Return(ImageClickFailure(
                               Msg("image click failed: ", Exc("AttributeError")), 0),
                           NoCalls, 0, clipboard)
           ELSE IF ni.target_img = Absent
               THEN Return(ImageClickFailure(
                               Msg("image click failed: ", Exc("'target_img'")), 0),
                           NoCalls, 0, clipboard)
           ELSE IF imageCheck(ni.target_img[2]) = "missing"
               THEN Return(ImageClickFailure(
                               Msg("image file does not exist: ", ni.target_img), 0),
                           NoCalls, 0, clipboard)
           ELSE IF imageCheck(ni.target_img[2]) = "unsupported"
               THEN Return(ImageClickFailure(
                               Msg("unsupported image format, use one of: ",
                                   PyList(valid_extensions)), 0),
                           NoCalls, 0, clipboard)
           ELSE /\ pc' = "polling"
                /\ now' = 0
                /\ end_time' = 0 + ni.wait_time[2]
                /\ attempts' = 0
                /\ calls' = NoCalls
                /\ locHist' = <<>>
                /\ polled' = TRUE
                /\ UNCHANGED <<result, clipboard>>
        /\ UNCHANGED <<condVars, metaVars>>

(* What one call of pyautogui.locateCenterOnScreen does *)
LocateOutcomes == {PyNone, Exc("locate")} \cup Locations

(* One iteration of "while time.time() < end_time" (lines 209-233) *)
ImageClickNode_attempt ==
    /\ pc = "polling"
    /\ now < end_time
    /\ attempts' = attempts + 1
    /\ \E location \in LocateOutcomes :
          LET located == [calls EXCEPT !.locate = @ + 1]
              found == location[1] # "exc" /\ bool(location)
              \* out: what locate did; at: the argument of pyautogui.click (None:
              \* no click); click: what the click did; slept: a gap sleep followed
              attempt(at, click) ==
                  [out |-> location, at |-> at, click |-> click, slept |-> FALSE]
              retry(entry, c) ==
                  \* fall through to time.sleep(0.5) and the next iteration
                  \E adv \in SleepAdvance :
                      /\ pc' = "polling"
                      /\ result' = result
                      /\ calls' = [c EXCEPT !.sleep = @ + 1]
                      /\ locHist' = Append(locHist, [entry EXCEPT !.slept = TRUE])
                      /\ now' = now + adv
          IN
          IF found
          THEN \/ \* pyautogui.click returns
                  /\ pc' = "returned"
                  /\ result' = ImageClickSuccess(location, now)
                  /\ calls' = [located EXCEPT !.click = @ + 1]
                  /\ locHist' = Append(locHist, attempt(location, "ok"))
                  /\ now' = now
               \/ \* pyautogui.click raises: caught by the inner "except Exception"
                  retry(attempt(location, "raise"), [located EXCEPT !.click = @ + 1])
          ELSE \* not found, or locate raised and the inner handler swallowed it
               retry(attempt(PyNone, "none"), located)
    /\ UNCHANGED <<node, step, inputs, end_time, clipboard, clip0, polled, failedBefore>>
    /\ UNCHANGED <<condVars, metaVars>>

(* The loop ran out of time (lines 235-243) *)
ImageClickNode_timeout ==
    /\ pc = "polling"
    /\ ~(now < end_time)
    /\ pc' = "returned"
    /\ result' = ImageClickFailure(timeoutMessage(attempts), now)
    /\ UNCHANGED <<node, step, inputs, now, end_time, attempts, calls, clipboard,
                   clip0, locHist, polled, failedBefore>>
    /\ UNCHANGED <<condVars, metaVars>>

----------------------------------------------------------------------------
(* The workflow chain *)

IdleCond ==
    /\ condValue = Absent
    /\ condOut = EmptyDict
    /\ branch = "none"
    /\ condPc = "idle"

IdleMeta ==
    /\ clsName = "none"
    /\ clsBases = <<>>
    /\ clsOwn = <<>>
    /\ clsAttrs = <<>>
    /\ clsPc = "idle"

IdleChain ==
    /\ pc = "idle"
    /\ node = "none"
    /\ step = 0
    /\ inputs = NoInputs
    /\ result = EmptyDict
    /\ now = 0
    /\ end_time = 0
    /\ attempts = 0
    /\ calls = NoCalls
    /\ clip0 = clipboard
    /\ locHist = <<>>
    /\ polled = FALSE
    /\ failedBefore = FALSE

Init ==
    /\ clipboard \in ClipValues
    /\ IdleChain
    /\ IdleCond
    /\ IdleMeta

Next ==
    \/ MouseClickNode_execute
    \/ ImageClickNode_execute
    \/ ImageClickNode_attempt
    \/ ImageClickNode_timeout
    \/ OpenApplicationNode_execute
    \/ TypeTextNode_execute
    \/ KeyPressNode_execute

Spec == Init /\ [][Next]_vars

----------------------------------------------------------------------------
(* ConditionNode (condition.py) *)

(* An object with its own truth protocol and text conversion:
   truth: what bool(value) does; fmt: what formatting it into a log line does *)
Objects ==
    {PyObj([truth |-> t, fmt |-> f]) : t \in {"true", "false", "raise"},
                                        f \in {"ok", "raise"}}

(* node_inputs["value"]; Absent: node_inputs has no such key *)
CondValues ==
    {Absent, PyNone, PyTrue, PyFalse, PyFloat(0), PyFloat(1), PyFloat(-1)}
    \cup {PyInt(n) : n \in -MaxInt..MaxInt}
    \cup {PyStr(<<>>), PyStr(<<" ">>), PyStr(<<"0">>), PyStr(<<"x">>),
          PyStr(<<"F", "a", "l", "s", "e">>)}
    \cup {PyList(<<>>), PyList(<<PyInt(0)>>), PyList(<<PyNone>>), PyList(<<PyFalse>>),
          PyList(<<PyList(<<>>)>>)}
    \cup {PyDict(EmptyDict), PyDict([EmptyDict EXCEPT !.success = PyFalse]),
          PyDict([EmptyDict EXCEPT !.condition_result = PyNone])}
    \cup Objects

(* Does the statement raise for this value? *)
formatRaises(value) == value[1] = "obj" /\ value[2].fmt = "raise"
boolRaises(value) == value[1] = "obj" /\ value[2].truth = "raise"

(* The dict ConditionNode.execute returns for node_inputs *)
condition_result(node_value) ==
    LET value == IF node_value = Absent THEN PyNone ELSE node_value
    IN  IF formatRaises(value) \/ boolRaises(value)
        THEN PyNone                                  \* the except block
        ELSE IF bool(value) THEN PyTrue ELSE PyFalse

ConditionNode_execute ==
    /\ condPc = "idle"
    /\ condOut' = [EmptyDict EXCEPT !.condition_result = condition_result(condValue)]
    /\ condPc' = "executed"
    /\ UNCHANGED <<condValue, branch, chainVars, metaVars>>

(* Variant for testing C7: condition_result tested with "is not None" *)
get_active_branch_isNotNone(outputs) ==
    IF get(PyDict(outputs), "condition_result", PyNone) # PyNone
    THEN "true_branch" ELSE "false_branch"

(* "true_branch" if outputs.get("condition_result") else "false_branch" *)
get_active_branch(outputs) ==
    IF bool(get(PyDict(outputs), "condition_result", PyNone))
    THEN "true_branch" ELSE "false_branch"

ConditionNode_get_active_branch ==
    /\ condPc = "executed"
    /\ branch' = get_active_branch(condOut)
    /\ condPc' = "routed"
    /\ UNCHANGED <<condValue, condOut, chainVars, metaVars>>

CondInit ==
    /\ condValue \in CondValues
    /\ condOut = EmptyDict
    /\ branch = "none"
    /\ condPc = "idle"
    /\ clipboard = OldClip
    /\ IdleChain
    /\ IdleMeta

CondNext == ConditionNode_execute \/ ConditionNode_get_active_branch

CondSpec == CondInit /\ [][CondNext]_vars

----------------------------------------------------------------------------
(* RPANodeMeta.__new__ (index.py).  A descriptor dict maps each key of     *)
(* Keys to the descriptor declared for it, NoDesc when the dict has no     *)
(* such key; a descriptor is named after the class that wrote it.  A base  *)
(* class is what hasattr/getattr show of it: BASE_INPUTS and BASE_OUTPUTS, *)
(* Absent when hasattr is False.                                           *)

Keys == {"previous_result", "result", "x", "timeout"}
NoDesc == "-"

EmptyMap == [k \in Keys |-> NoDesc]
Map(k1, d1) == [EmptyMap EXCEPT ![k1] = d1]
Map2(k1, d1, k2, d2) == [EmptyMap EXCEPT ![k1] = d1, ![k2] = d2]

(* Variant for testing C8: keys already present are kept (setdefault) *)
update_keepExisting(a, b) == [k \in Keys |-> IF a[k] # NoDesc THEN a[k] ELSE b[k]]

(* dict.update, and {**a, **b} *)
update(a, b) == [k \in Keys |-> IF b[k] # NoDesc THEN b[k] ELSE a[k]]

NodeClass == [BASE_INPUTS |-> Absent, BASE_OUTPUTS |-> Absent]
BaseRPANode ==
    [BASE_INPUTS |-> PyDict(Map("previous_result", "BaseRPANode")),
     BASE_OUTPUTS |-> PyDict(Map("result", "BaseRPANode"))]
MixinA ==
    [BASE_INPUTS |-> PyDict(Map2("previous_result", "MixinA", "timeout", "MixinA")),
     BASE_OUTPUTS |-> Absent]
MixinB ==
    [BASE_INPUTS |-> PyDict(Map("timeout", "MixinB")),
     BASE_OUTPUTS |-> PyDict(Map2("result", "MixinB", "x", "MixinB"))]

BaseClasses == {NodeClass, BaseRPANode, MixinA, MixinB}

(* Python rejects a class statement that lists a base twice *)
BaseLists ==
    {b \in UNION {[1..n -> BaseClasses] : n \in 0..MaxBases} :
        \A i, j \in 1..Len(b) : i # j => b[i] # b[j]}

ClassNames == {"BaseRPANode", "MouseClickNode"}

(* attrs of the class statement: its own INPUTS and OUTPUTS, Absent when
   the class body declares none *)
OwnAttrs ==
    [INPUTS : {Absent, PyDict(EmptyMap), PyDict(Map("x", "own")),
               PyDict(Map2("previous_result", "own", "x", "own"))},
     OUTPUTS : {Absent, PyDict(Map("result", "own"))}]

(* for base in bases: if hasattr(base, attr): acc.update(getattr(base, attr)) *)
RECURSIVE mergeBases(_, _, _)
mergeBases(bases, attr, acc) ==
    IF bases = <<>> THEN acc
    ELSE mergeBases(Tail(bases), attr,
                    IF Head(bases)[attr] # Absent
                    THEN update(acc, Head(bases)[attr][2])
                    ELSE acc)

(* {**base, **attrs.get(key, {})} *)
overlayOwn(base, attrs, key) ==
    update(base, IF attrs[key] = Absent THEN EmptyMap ELSE attrs[key][2])

(* The attrs RPANodeMeta.__new__ hands to type.__new__ *)
RPANodeMeta_new(name, bases, attrs) ==
    IF name # "BaseRPANode"
    THEN [INPUTS |-> PyDict(overlayOwn(mergeBases(bases, "BASE_INPUTS", EmptyMap),
                                       attrs, "INPUTS")),
          OUTPUTS |-> PyDict(overlayOwn(mergeBases(bases, "BASE_OUTPUTS", EmptyMap),
                                        attrs, "OUTPUTS"))]
    ELSE attrs

CreateClass ==
    /\ clsPc = "declared"
    /\ clsAttrs' = RPANodeMeta_new(clsName, clsBases, clsOwn)
    /\ clsPc' = "created"
    /\ UNCHANGED <<clsName, clsBases, clsOwn, chainVars, condVars>>

MetaInit ==
    /\ clsName \in ClassNames
    /\ clsBases \in BaseLists
    /\ clsOwn \in OwnAttrs
    /\ clsAttrs = clsOwn
    /\ clsPc = "declared"
    /\ clipboard = OldClip
    /\ IdleChain
    /\ IdleCond

MetaNext == CreateClass

MetaSpec == MetaInit /\ [][MetaNext]_vars

----------------------------------------------------------------------------
(* Properties of the action nodes *)

(* The node returned the guard's skip result and touched nothing *)
Skipped ==
    /\ pc = "returned"
    /\ result.success = PyFalse
    /\ result.error_message = SkipMessage
    /\ calls = NoCalls
    /\ ~polled

(* C1: in a chain of action nodes, each fed the result of the node before
   it, once a node has returned success=False every later node returns
   success=False with the fixed skip message and calls no automation
   primitive. *)
C1_FailurePropagates == failedBefore => Skipped

C1_Witness == failedBefore /\ step >= 3 /\ Skipped /\ node = "TypeText"

(* Values of success that Python treats as false *)
FalsySuccess == {PyFalse, PyNone, PyInt(0), PyStr(<<>>)}

ValidImages == {PngLower, PngUpper, JpegMixed, JpgFile, BmpFile}

(* The node went past its guard: with its required inputs in order it
   reached its first automation primitive (or its poll loop) *)
ReachesEffect ==
    CASE node = "MouseClick" ->
            (inputs.x # Absent /\ inputs.y # Absent) => calls.click = 1
      [] node = "TypeText" -> calls.paste = 1
      [] node = "KeyPress" ->
            (inputs.key # Absent /\ inputs.modifiers # PyNone)
                => calls.hotkey + calls.press >= 1
      [] node = "OpenApplication" ->
            inputs.app_file = PyStr(AppFile) => calls.startfile = 1
      [] node = "ImageClick" ->
            inputs.target_img \in {PyStr(f) : f \in ValidImages} => polled

(* C2 as stated: a node skips exactly when previous_result is a mapping
   whose success is the value False, and otherwise goes on to its effect. *)
C2_SkipIffExplicitlyFalse ==
    pc = "returned" =>
        LET pr == inputs.previous_result
            explicitFalse == pr[1] = "dict" /\ pr[2].success = PyFalse
        IN  /\ Skipped <=> explicitFalse
            /\ ~explicitFalse => ReachesEffect

(* C2 amended: a node skips exactly when previous_result is a mapping whose
   success field is present and falsy (False, None, 0, empty text); when
   previous_result is absent, falsy, or a mapping without such a success
   field the node does not skip and goes on to its effect. *)
C2_SkipIffFalsySuccess ==
    pc # "idle" =>
        LET pr == inputs.previous_result
            falsySuccess == pr[1] = "dict" /\ pr[2].success \in FalsySuccess
            truthyNonMapping == pr[1] = "str" /\ pr[2] # <<>>
        IN  /\ Skipped <=> falsySuccess
            /\ pc = "polling" => ~falsySuccess
            /\ (pc = "returned" /\ ~falsySuccess /\ ~truthyNonMapping) => ReachesEffect

C2_Witness ==
    /\ Skipped
    /\ step = 1
    /\ inputs.previous_result = PyDict([EmptyDict EXCEPT !.success = PyNone])

(* C3: when locate finds nothing on its first n-1 calls and a location on
   call n, and the click succeeds, locate has been called exactly n times,
   click once and at that location, no gap sleep follows call n, and the
   result is success=True, image_found=True, click_position = the location. *)
C3_FirstFoundIsClicked ==
    (node = "ImageClick" /\ polled) =>
        \A n \in 1..Len(locHist) :
            ( /\ \A i \in 1..(n - 1) : locHist[i].out = PyNone
              /\ locHist[n].out \in Locations
              /\ locHist[n].click = "ok" )
            =>
            /\ Len(locHist) = n
            /\ calls.locate = n
            /\ calls.click = 1
            /\ locHist[n].at = locHist[n].out
            /\ calls.sleep = n - 1
            /\ \A i \in 1..n : locHist[i].slept <=> i < n
            /\ pc = "returned"
            /\ result.success = PyTrue
            /\ result.error_message = PyStr(<<>>)
            /\ result.image_found = PyTrue
            /\ result.click_position =
                   PyDict([x |-> PyInt(locHist[n].out[2]), y |-> PyInt(locHist[n].out[3])])

C3_Witness ==
    /\ node = "ImageClick" /\ pc = "returned"
    /\ Len(locHist) = 3
    /\ locHist[1].out = PyNone /\ locHist[2].out = PyNone
    /\ locHist[3].out = Point(3, 4) /\ locHist[3].click = "ok"

(* No attempt of this execute has yielded a location *)
NothingFound == \A i \in 1..Len(locHist) : locHist[i].out \notin Locations

(* C4: while every locate attempt finds nothing or raises, no attempt ends
   the node: each one is counted and followed by the gap sleep, the deadline
   is start + wait_time throughout, the node returns only once the deadline
   is reached, with success=False, image_found=False, click_position=None,
   no click and a message carrying the number of locate calls; there are at
   most ceil(wait_time / 0.5 s) attempts, none when wait_time <= 0.  The
   loop ends: it can always take its next iteration or its time-out, each
   iteration moves the clock by a gap or more, and the attempts are bounded. *)
C4_OnlyTimeoutEnds ==
    (node = "ImageClick" /\ polled /\ NothingFound) =>
        LET wait == inputs.wait_time[2]
            n == Len(locHist)
        IN  /\ end_time = wait
            /\ attempts = n
            /\ calls.locate = n
            /\ calls.sleep = n
            /\ \A i \in 1..n : locHist[i].slept
            /\ calls.click = 0
            /\ now >= GapTicks * n
            /\ n * GapTicks < wait + GapTicks
            /\ wait <= 0 => n = 0
            /\ pc = "polling" =>
                  ENABLED (ImageClickNode_attempt \/ ImageClickNode_timeout)
            /\ pc = "returned" =>
                  /\ now >= end_time
                  /\ result.success = PyFalse
                  /\ result.image_found = PyFalse
                  /\ result.click_position = PyNone
                  /\ result.error_message =
                         Msg("target image not found (attempts: ", PyInt(calls.locate))

C4_Witness ==
    /\ node = "ImageClick" /\ polled /\ pc = "returned" /\ NothingFound
    /\ Len(locHist) = 3
    /\ locHist[2].out = Exc("locate")

(* The guard neither skipped nor raised *)
GuardPassed ==
    result.error_message \notin
        {SkipMessage, Msg("image click failed: ", Exc("AttributeError"))}

FailedFast ==
    /\ result.success = PyFalse
    /\ result.image_found = PyFalse
    /\ result.click_position = PyNone
    /\ calls = NoCalls
    /\ ~polled
    /\ locHist = <<>>

(* C5: with the guard not triggered, a target_img that does not exist, or
   exists without one of the extensions .png .jpg .jpeg .bmp, makes the node
   return success=False, image_found=False, click_position=None without
   entering the loop (no locate, no click, no sleep); existence is checked
   first, and the message for a missing file names the path. *)
C5_BadImageFailsFast ==
    (pc = "returned" /\ node = "ImageClick" /\ inputs.target_img # Absent
        /\ GuardPassed) =>
        LET path == inputs.target_img[2]
        IN  /\ path \notin Files =>
                /\ FailedFast
                /\ result.error_message =
                       Msg("image file does not exist: ", PyStr(path))
            /\ (path \in Files /\ path \notin ValidImages) =>
                /\ FailedFast
                /\ result.error_message[2] = "unsupported image format, use one of: "

C5_Witness ==
    /\ pc = "returned" /\ node = "ImageClick" /\ GuardPassed
    /\ inputs.target_img = PyStr(MissingGif)
    /\ FailedFast

(* C6: whatever the text and whether the node is skipped, the paste raises
   or succeeds, the clipboard holds its prior content when TypeTextNode's
   execute returns. *)
C6_ClipboardPreserved ==
    (pc = "returned" /\ node = "TypeText") => clipboard = clip0

PayloadKey ==
    CASE node \in {"MouseClick", "ImageClick"} -> "click_position"
      [] node = "OpenApplication" -> "process_info"
      [] node = "TypeText" -> "text_info"
      [] node = "KeyPress" -> "key_info"

MessageNonEmpty(m) ==
    /\ m[1] = "msg"
    /\ m[2] # "" \/ m[3] \notin {Exc(""), PyStr(<<>>)}

(* C9: every execute of an action node ends by returning a dict (the model
   has no other way out), and in that dict success decides the payload:
   success=True comes with an empty error_message, the node's own payload
   present and not None, and image_found=True for ImageClickNode;
   success=False with a non-empty error_message, the payload None or absent
   and image_found not True. *)
C9_PayloadDeterminedBySuccess ==
    /\ pc \in {"idle", "polling", "returned"}
    /\ pc = "returned" =>
        /\ result.success \in {PyTrue, PyFalse}
        /\ result.success = PyTrue =>
              /\ result.error_message = PyStr(<<>>)
              /\ result[PayloadKey] \notin {Absent, PyNone}
              /\ node = "ImageClick" => result.image_found = PyTrue
        /\ result.success = PyFalse =>
              /\ MessageNonEmpty(result.error_message)
              /\ result[PayloadKey] \in {Absent, PyNone}
              /\ result.image_found # PyTrue

C9_Witness ==
    /\ pc = "returned" /\ node = "OpenApplication"
    /\ result.success = PyFalse
    /\ calls.startfile = 1
    /\ result.error_message = Msg("failed to start application: ", Exc(""))

(* C10: polling stops at the first locate attempt that yields a location,
   also when the click raises: no locate call and no gap sleep follow that
   attempt, and click is called at most once per execute. *)
C10_StopsAtFirstFound ==
    node = "ImageClick" =>
        /\ \A i \in 1..Len(locHist) :
              locHist[i].out \in Locations => (i = Len(locHist) /\ ~locHist[i].slept)
        /\ calls.click <= 1

----------------------------------------------------------------------------
(* Properties of ConditionNode *)

(* Values that are empty, zero or absent *)
EmptyLike ==
    {Absent, PyNone, PyFalse, PyInt(0), PyFloat(0), PyStr(<<>>), PyList(<<>>),
     PyDict(EmptyDict), PyObj([truth |-> "false", fmt |-> "ok"])}

(* Values on which a statement of execute raises *)
Failing ==
    {PyObj([truth |-> t, fmt |-> f]) :
        t \in {"true", "false", "raise"}, f \in {"ok", "raise"}}
    \ {PyObj([truth |-> "true", fmt |-> "ok"]), PyObj([truth |-> "false", fmt |-> "ok"])}

(* C7: execute returns condition_result False for empty, zero and absent
   values, None when the evaluation raises, True for every other value;
   get_active_branch returns one of the two branch names, "false_branch"
   exactly for False and None and "true_branch" exactly for True. *)
C7_BranchSelector ==
    condPc \in {"executed", "routed"} =>
        LET r == condOut.condition_result
        IN  /\ condValue \in Failing => r = PyNone
            /\ condValue \in EmptyLike => r = PyFalse
            /\ condValue \notin (Failing \cup EmptyLike) => r = PyTrue
            /\ condPc = "routed" =>
                  /\ branch \in {"true_branch", "false_branch"}
                  /\ branch = "false_branch" <=> r \in {PyFalse, PyNone}
                  /\ branch = "true_branch" <=> r = PyTrue

C7_Witness ==
    /\ condPc = "routed"
    /\ condValue = PyObj([truth |-> "raise", fmt |-> "ok"])
    /\ condOut.condition_result = PyNone
    /\ branch = "false_branch"

----------------------------------------------------------------------------
(* Properties of RPANodeMeta *)

(* The bases that define attr and hold key k *)
Holders(k, attr) ==
    {i \in 1..Len(clsBases) :
        clsBases[i][attr] # Absent /\ clsBases[i][attr][2][k] # NoDesc}

Last(S) == CHOOSE i \in S : \A j \in S : j <= i

(* The descriptor the merge rule gives key k: the class's own if it declares
   one, else that of the last base holding k, else none *)
ExpectedEntry(k, baseAttr, ownAttr) ==
    IF clsOwn[ownAttr] # Absent /\ clsOwn[ownAttr][2][k] # NoDesc
    THEN clsOwn[ownAttr][2][k]
    ELSE IF Holders(k, baseAttr) = {} THEN NoDesc
    ELSE clsBases[Last(Holders(k, baseAttr))][baseAttr][2][k]

MergedAsExpected ==
    /\ clsAttrs.INPUTS[1] = "dict"
    /\ clsAttrs.OUTPUTS[1] = "dict"
    /\ \A k \in Keys :
          /\ clsAttrs.INPUTS[2][k] = ExpectedEntry(k, "BASE_INPUTS", "INPUTS")
          /\ clsAttrs.OUTPUTS[2][k] = ExpectedEntry(k, "BASE_OUTPUTS", "OUTPUTS")
          /\ Holders(k, "BASE_INPUTS") # {} => clsAttrs.INPUTS[2][k] # NoDesc
          /\ Holders(k, "BASE_OUTPUTS") # {} => clsAttrs.OUTPUTS[2][k] # NoDesc

(* C8 as stated: every class created through RPANodeMeta gets as INPUTS
   (OUTPUTS) the bases' descriptor sets merged in declaration order and
   overlaid by its own, an undeclared set counting as empty. *)
C8_EveryClassMerged == clsPc = "created" => MergedAsExpected

(* C8 amended: the same for every class whose name is not "BaseRPANode". *)
C8_MergedUnlessBaseClass ==
    (clsPc = "created" /\ clsName # "BaseRPANode") => MergedAsExpected

C8_Witness ==
    /\ clsPc = "created" /\ clsName = "MouseClickNode"
    /\ clsBases = <<BaseRPANode, MixinA>>
    /\ clsOwn.INPUTS = PyDict(Map("x", "own")) /\ clsOwn.OUTPUTS = Absent
    /\ clsAttrs.INPUTS[2]["previous_result"] = "MixinA"
    /\ clsAttrs.INPUTS[2]["x"] = "own"
    /\ clsAttrs.OUTPUTS[2]["result"] = "BaseRPANode"

====
